---- MODULE Spec2Model ----
(***************************************************************************)
(* The incremental indexing pipeline of startup.py: content hashing,       *)
(* change detection, parallel conversion, token counting, pruning and the  *)
(* persistence of the two index tables (.hash_index.csv and                *)
(* .token_index.csv), over a sequence of runs of main() separated by           *)
(* changes to the files under the root directory.                          *)
(*                                                                         *)
(* A path is a record [dir, name]: dir is the sequence of directory        *)
(* components below the root, name the file name split at its dots         *)
(* (a.pdf is <<"a", "pdf">>, a.pdf.md is <<"a", "pdf", "md">>).            *)
(* A source file's content is a positive integer (one value per version    *)
(* of its bytes); a file exists iff it is in DOMAIN fs.                    *)
(***************************************************************************)
EXTENDS Integers, Sequences, FiniteSets, TLC

\* ------------------------------------------------------------------ bounds
\* Runs of main() in one behaviour.
MaxRuns == 3
\* Changes made to the directory tree between runs in one behaviour.
MaxEnvSteps == 1
\* Distinct versions of a source file's bytes.
MaxContent == 2
\* Units of work (hash, conversion, count, save) that fail in one behaviour.
MaxFaults == 1

\* ------------------------------------------------------- program constants
DOCX_CONVERTER_MARKITDOWN == "markitdown"
DOCX_CONVERTER_SUPERDOC == "superdoc-redlines"
DEFAULT_DOCX_CONVERTER == DOCX_CONVERTER_MARKITDOWN
\* The two values argparse accepts for --docx_converter.
ConverterChoices == {DOCX_CONVERTER_MARKITDOWN, DOCX_CONVERTER_SUPERDOC}
EMAIL_SUFFIXES == {"eml", "msg", "emlx", "mbox", "mbx", "mht", "mhtml", "oft"}
MARKITDOWN_MD_SUFFIXES == {"pdf"} \cup EMAIL_SUFFIXES
SOURCE_SUFFIXES == MARKITDOWN_MD_SUFFIXES \cup {"docx"}

\* ------------------------------------------------------------------- paths
MkPath(d, n) == [dir |-> d, name |-> n]
FileA == MkPath(<<>>, <<"a", "pdf">>)
FileB == MkPath(<<>>, <<"b", "docx">>)
\* The source files a behaviour may hold under the root.
SourceUniverse == {FileA, FileB}
\* The two index tables, as paths under the root.
HASH_INDEX_FILENAME == MkPath(<<>>, <<"", "hash_index", "csv">>)
TOKEN_INDEX_FILENAME == MkPath(<<>>, <<"", "token_index", "csv">>)

\* str.lower() on the name pieces the model uses.
Lower(s) ==
  CASE s = "PDF" -> "pdf"
    [] s = "DOCX" -> "docx"
    [] s = "MD" -> "md"
    [] OTHER -> s

\* pathlib's PurePath.suffix, without its dot: the piece after the last dot
\* of the name, "" when the name has no dot, starts with its only dot or
\* ends with a dot.
PathSuffix(p) ==
  LET n == p.name IN
  IF Len(n) < 2 \/ n[Len(n)] = "" \/ (Len(n) = 2 /\ n[1] = "")
  THEN ""
  ELSE n[Len(n)]

\* The order of str on the pieces the model uses (ASCII: upper case first).
PieceRank(s) ==
  CASE s = "" -> 0
    [] s = ".claude" -> 1
    [] s = ".git" -> 2
    [] s = "DOCX" -> 3
    [] s = "PDF" -> 4
    [] s = "a" -> 5
    [] s = "b" -> 6
    [] s = "c" -> 7
    [] s = "csv" -> 8
    [] s = "docx" -> 9
    [] s = "eml" -> 10
    [] s = "hash_index" -> 11
    [] s = "json" -> 12
    [] s = "md" -> 13
    [] s = "notes" -> 14
    [] s = "pdf" -> 15
    [] s = "sub" -> 16
    [] s = "token_index" -> 17
    [] s = "txt" -> 18
    [] OTHER -> 19

RECURSIVE SeqLess(_, _)
SeqLess(s, t) ==
  IF s = <<>> THEN t # <<>>
  ELSE IF t = <<>> THEN FALSE
  ELSE IF PieceRank(Head(s)) # PieceRank(Head(t))
       THEN PieceRank(Head(s)) < PieceRank(Head(t))
       ELSE SeqLess(Tail(s), Tail(t))

\* p sorts before q (sorted() on the relative paths).
PathLess(p, q) == SeqLess(p.dir \o p.name, q.dir \o q.name)

\* sorted(S) as a sequence.
RECURSIVE SortedSeq(_)
SortedSeq(S) ==
  IF S = {} THEN <<>>
  ELSE LET m == CHOOSE x \in S : \A y \in S : x = y \/ PathLess(x, y)
       IN <<m>> \o SortedSeq(S \ {m})

Range(s) == {s[i] : i \in 1..Len(s)}

\* A dict: a function whose domain is its key set.
EmptyDict == [k \in {} |-> 0]
DictPut(d, k, v) == [x \in DOMAIN d \cup {k} |-> IF x = k THEN v ELSE d[x]]
DictRestrict(d, K) == [x \in DOMAIN d \cap K |-> d[x]]

\* ------------------------------------------------------------ pure helpers
\* blake2b of the file's bytes: a different digest for different bytes.
hash_file(bytes) == 100 + bytes

\* What a converter writes for a source with these bytes.
ConverterOutput(bytes) == 10 * bytes
\* What is left at the artifact path when the write of the output stops
\* part-way.
TruncatedOutput(bytes) == 10 * bytes + 1

\* len(_encoding.encode(text)) of an artifact's text.
count_tokens(text) == 2 * text + 1

Unsupported == MkPath(<<>>, <<>>)
\* An artifact path that replaces the source's suffix instead of appending
\* to the name.
converted_path_ReplaceSuffix(source, docx_converter) ==
  MkPath(source.dir, Append(SubSeq(source.name, 1, Len(source.name) - 1), "md"))
\* converted_path(); Unsupported stands for the ValueError it raises.
converted_path(source, docx_converter) ==
  LET suffix == Lower(PathSuffix(source)) IN
  IF suffix \in MARKITDOWN_MD_SUFFIXES
  THEN MkPath(source.dir, Append(source.name, "md"))
  ELSE IF suffix = "docx"
  THEN MkPath(source.dir,
              Append(source.name,
                     IF docx_converter = DOCX_CONVERTER_MARKITDOWN
                     THEN "md" ELSE "json"))
  ELSE Unsupported

\* Every path a behaviour may hold: the sources and their artifacts.
PathUniverse ==
  SourceUniverse \cup
  {converted_path(s, c) : s \in SourceUniverse, c \in ConverterChoices}

\* ------------------------------------------------------------ index tables
\* An index table on disk: whether the file exists, whether its header row
\* has been written, and its body rows <<file, value>> in file order.
NoTable == [exists |-> FALSE, header |-> FALSE, rows |-> <<>>]
TruncatedTable == [exists |-> TRUE, header |-> FALSE, rows |-> <<>>]

\* csv.DictReader over the table: no header, no rows; a later row of the
\* same file replaces an earlier one.
RECURSIVE RowsToDict(_, _)
RowsToDict(rows, index) ==
  IF rows = <<>> THEN index
  ELSE RowsToDict(Tail(rows), DictPut(index, Head(rows)[1], Head(rows)[2]))

load_hash_index(table) ==
  IF ~table.exists THEN EmptyDict
  ELSE IF ~table.header THEN EmptyDict
  ELSE RowsToDict(table.rows, EmptyDict)

load_token_index(table) ==
  IF ~table.exists THEN EmptyDict
  ELSE IF ~table.header THEN EmptyDict
  ELSE RowsToDict(table.rows, EmptyDict)

\* The rows of a save that writes the keys from last to first.
TableRows_Reversed(index) ==
  LET keys == SortedSeq(DOMAIN index)
  IN [i \in 1..Len(keys) |->
        <<keys[Len(keys) + 1 - i], index[keys[Len(keys) + 1 - i]]>>]

\* The rows a save writes: one per key, in sorted(index) order.
TableRows(index) ==
  LET keys == SortedSeq(DOMAIN index)
  IN [i \in 1..Len(keys) |-> <<keys[i], index[keys[i]]>>]

\* The table a completed save leaves.
WrittenTable(index) == [exists |-> TRUE, header |-> TRUE, rows |-> TableRows(index)]

\* The table a save leaves when it stops at failure point k: open() raised
\* (k = 0, the table is untouched), open() has truncated the file (k = 1), or
\* the header row and the first k - 2 body rows are out (k >= 2).
InterruptedTable(table, index, k) ==
  IF k = 0 THEN table
  ELSE IF k = 1 THEN TruncatedTable
  ELSE [exists |-> TRUE, header |-> TRUE, rows |-> SubSeq(TableRows(index), 1, k - 2)]

\* The failure points of a save of index: before the last body row is out.
FailurePoints(index) == 0..(Len(TableRows(index)) + 1)

\* ------------------------------------------------------------------- state
VARIABLES
  fs,              \* the files under the root: path -> bytes (sources, artifacts)
  option,          \* the --docx_converter value the pipeline is invoked with
  diskHash,        \* .hash_index.csv
  diskTok,         \* .token_index.csv
  pc,              \* where main() is
  docx_converter,  \* args.docx_converter of the current run
  hash_index,      \* main's hash_index dict
  token_index,     \* main's token_index dict
  sources,         \* main's sorted list of discovered files
  hashes,          \* main's hashes dict
  to_convert,      \* convert_files' to_convert list
  converted_rels,  \* convert_files' converted_rels list
  needs_count,     \* index_tokens' needs_count
  tasks,           \* the futures of the current stage's pool: file -> state
  early,           \* the run took the "no supported source files" return
  summary,         \* the summary main prints
  failed,          \* the per-file errors main printed this run, by stage
  nsaves,          \* completed saves of each table in this run
  runsLeft,        \* runs that may still start
  envLeft,         \* changes that may still be made between runs
  faultsLeft,      \* units of work that may still fail
  fsChanged,       \* the tree changed since the last run ended
  before,          \* what the current run found when it started
  prev,            \* how the run before the current one ended
  file_index,      \* main.py: main's index dict, file -> <<hash, tokens>>
  diskIndex        \* main.py: .file_index.csv

vars == <<fs, option, diskHash, diskTok, pc, docx_converter, hash_index, token_index,
          sources, hashes, to_convert, converted_rels, needs_count, tasks,
          early, summary, failed, nsaves, runsLeft, envLeft, faultsLeft,
          fsChanged, before, prev, file_index, diskIndex>>

\* The program state a run owns.
runVars == <<docx_converter, hash_index, token_index, sources, hashes,
             to_convert, converted_rels, needs_count, tasks, early,
             summary, failed, nsaves, before, prev>>

NoSummary == [printed |-> FALSE, files |-> 0, converted |-> 0, unchanged |-> 0,
              total_tokens |-> 0]
NoFailures == [hash |-> {}, convert |-> {}, count |-> {}]
NoSaves == [hash |-> 0, token |-> 0]
NoPrev == [ran |-> FALSE, done |-> FALSE, clean |-> FALSE,
           converter |-> DEFAULT_DOCX_CONVERTER, hashed |-> {},
           failed |-> NoFailures]
NoBefore == [fs |-> EmptyDict, diskHash |-> NoTable, diskTok |-> NoTable,
             hash_index |-> EmptyDict, token_index |-> EmptyDict,
             quiet |-> FALSE]

\* main() has returned or an uncaught exception has ended it.
Ended == pc \in {"done", "crashed", "aborted"}
\* A pool that is not waited for: the stage goes on at once.
AllCollected_NoWait == TRUE
AllCollected == \A f \in DOMAIN tasks : tasks[f] = "collected"

\* A tree that no run has indexed yet, and no process.
FreshTree ==
  /\ \E S \in SUBSET SourceUniverse : fs = [p \in S |-> 1]
  /\ option = DEFAULT_DOCX_CONVERTER
  /\ diskHash = NoTable
  /\ diskTok = NoTable
  /\ pc = "idle"
  /\ docx_converter = DEFAULT_DOCX_CONVERTER
  /\ hash_index = EmptyDict
  /\ token_index = EmptyDict
  /\ sources = <<>>
  /\ hashes = EmptyDict
  /\ to_convert = <<>>
  /\ converted_rels = <<>>
  /\ needs_count = {}
  /\ tasks = EmptyDict
  /\ early = FALSE
  /\ summary = NoSummary
  /\ failed = NoFailures
  /\ nsaves = NoSaves
  /\ fsChanged = FALSE
  /\ before = NoBefore
  /\ prev = NoPrev
  /\ file_index = EmptyDict
  /\ diskIndex = NoTable

\* Runs separated by changes to the tree, with few failing units of work.
Init ==
  /\ FreshTree
  /\ runsLeft = MaxRuns
  /\ envLeft = MaxEnvSteps
  /\ faultsLeft = MaxFaults

\* A single run on a fresh tree in which one more unit of work may fail.
InitOneRun ==
  /\ FreshTree
  /\ runsLeft = 1
  /\ envLeft = 0
  /\ faultsLeft = MaxFaults + 2

\* ---------------------------------------------------- the directory tree
\* Between two runs a source file is created, rewritten or deleted, or an
\* artifact is removed by hand. (The tree before the first run is Init's.)
BetweenRuns == pc = "idle" /\ prev.ran /\ runsLeft > 0
CreateFile(f, bytes) ==
  /\ BetweenRuns /\ envLeft > 0
  /\ f \notin DOMAIN fs
  /\ fs' = DictPut(fs, f, bytes)
  /\ envLeft' = envLeft - 1
  /\ fsChanged' = TRUE
  /\ UNCHANGED <<file_index, diskIndex,
                 option, diskHash, diskTok, pc, runsLeft, faultsLeft, runVars>>

EditFile(f, bytes) ==
  /\ BetweenRuns /\ envLeft > 0
  /\ f \in DOMAIN fs /\ fs[f] # bytes
  /\ fs' = DictPut(fs, f, bytes)
  /\ envLeft' = envLeft - 1
  /\ fsChanged' = TRUE
  /\ UNCHANGED <<file_index, diskIndex,
                 option, diskHash, diskTok, pc, runsLeft, faultsLeft, runVars>>

DeleteFile(p) ==
  /\ BetweenRuns /\ envLeft > 0
  /\ p \in DOMAIN fs
  /\ fs' = DictRestrict(fs, DOMAIN fs \ {p})
  /\ envLeft' = envLeft - 1
  /\ fsChanged' = TRUE
  /\ UNCHANGED <<file_index, diskIndex,
                 option, diskHash, diskTok, pc, runsLeft, faultsLeft, runVars>>

\* The --docx_converter option the pipeline is invoked with is changed.
ChangeOption(choice) ==
  /\ BetweenRuns /\ envLeft > 0
  /\ choice # option
  /\ option' = choice
  /\ envLeft' = envLeft - 1
  /\ fsChanged' = TRUE
  /\ UNCHANGED <<file_index, diskIndex,
                 fs, diskHash, diskTok, pc, runsLeft, faultsLeft, runVars>>

\* ------------------------------------------------------------------ main()
\* The per-file errors of the run so far.
AnyFailure == failed.hash # {} \/ failed.convert # {} \/ failed.count # {}

\* The process of a run exits: nothing of it is left but the files.
ProcessExit ==
  /\ Ended
  /\ pc' = "idle"
  /\ prev' = [ran |-> TRUE, done |-> pc = "done", clean |-> ~AnyFailure,
              converter |-> docx_converter, hashed |-> DOMAIN hashes,
              failed |-> failed]
  /\ docx_converter' = DEFAULT_DOCX_CONVERTER
  /\ hash_index' = EmptyDict
  /\ token_index' = EmptyDict
  /\ sources' = <<>>
  /\ hashes' = EmptyDict
  /\ to_convert' = <<>>
  /\ converted_rels' = <<>>
  /\ needs_count' = {}
  /\ tasks' = EmptyDict
  /\ early' = FALSE
  /\ summary' = NoSummary
  /\ failed' = NoFailures
  /\ nsaves' = NoSaves
  /\ before' = NoBefore
  /\ fsChanged' = FALSE
  /\ file_index' = EmptyDict
  /\ UNCHANGED <<fs, option, diskHash, diskTok, diskIndex, runsLeft, envLeft,
                 faultsLeft>>

\* parse_args() and step 1: load both indices.
StartRun ==
  /\ pc = "idle" /\ runsLeft > 0
  /\ runsLeft' = runsLeft - 1
  /\ docx_converter' = option
  /\ hash_index' = load_hash_index(diskHash)
  /\ token_index' = load_token_index(diskTok)
  /\ before' = [fs |-> fs, diskHash |-> diskHash, diskTok |-> diskTok,
                hash_index |-> load_hash_index(diskHash),
                token_index |-> load_token_index(diskTok),
                quiet |-> ~fsChanged]
  /\ pc' = "discover"
  /\ UNCHANGED <<file_index, diskIndex,
                 fs, option, diskHash, diskTok, sources, hashes, to_convert,
                 converted_rels, needs_count, tasks, early, summary, failed,
                 nsaves, envLeft, faultsLeft, fsChanged, prev>>

\* Path components that start with ".".
DotPieces == {".git", ".claude"}
\* _visible() that hides nothing.
Visible_All(p) == TRUE
\* _visible(): no directory component of the path starts with ".".
Visible(p) == ~\E i \in 1..Len(p.dir) : p.dir[i] \in DotPieces

\* An entry of the tree that is a directory: is_file() is false for it.
DirEntry == 0

\* What root.rglob("*") walks: the files and directories under the root,
\* the two index tables among them once they exist.
RglobTree(files, hashTable, tokTable) ==
  LET tables == (IF hashTable.exists THEN {HASH_INDEX_FILENAME} ELSE {})
                \cup (IF tokTable.exists THEN {TOKEN_INDEX_FILENAME} ELSE {})
  IN [p \in DOMAIN files \cup tables |->
        IF p \in DOMAIN files THEN files[p] ELSE 1]

\* Step 2: the sorted list of visible regular files with a supported
\* suffix.
Discovered(tree) ==
  SortedSeq({p \in DOMAIN tree :
               /\ tree[p] # DirEntry
               /\ Visible(p)
               /\ Lower(PathSuffix(p)) \in SOURCE_SUFFIXES})

\* Step 2, and either the early return's saves or the submission of one
\* hash task per source (step 3).
Discover ==
  /\ pc = "discover"
  /\ sources' = Discovered(RglobTree(fs, diskHash, diskTok))
  /\ IF Discovered(RglobTree(fs, diskHash, diskTok)) = <<>>
     THEN /\ early' = TRUE
          /\ pc' = "save_hash"
          /\ tasks' = tasks
     ELSE /\ early' = early
          /\ pc' = "hash"
          /\ tasks' = [f \in Range(Discovered(RglobTree(fs, diskHash, diskTok)))
                          |-> "running"]
  /\ UNCHANGED <<file_index, diskIndex,
                 fs, option, diskHash, diskTok, docx_converter, hash_index, token_index,
                 hashes, to_convert, converted_rels, needs_count, 
                 summary, failed, nsaves, runsLeft, envLeft, faultsLeft, fsChanged, before, prev>>

\* A worker's hash_file(src) returns or raises, and main's as_completed
\* loop takes the finished future: hashes[rel] = digest, or the error is
\* printed.
HashTask(f, ok) ==
  /\ pc = "hash"
  /\ f \in DOMAIN tasks /\ tasks[f] = "running"
  /\ tasks' = [tasks EXCEPT ![f] = "collected"]
  /\ ok \/ faultsLeft > 0
  /\ faultsLeft' = IF ok THEN faultsLeft ELSE faultsLeft - 1
  /\ IF ok
     THEN hashes' = DictPut(hashes, f, hash_file(fs[f])) /\ failed' = failed
     ELSE hashes' = hashes /\ failed' = [failed EXCEPT !.hash = @ \cup {f}]
  /\ UNCHANGED <<file_index, diskIndex,
                 fs, option, diskHash, diskTok, pc, docx_converter, hash_index,
                 token_index, sources, to_convert, converted_rels,
                 needs_count, early, summary, nsaves, runsLeft,
                 envLeft, fsChanged, before, prev>>

\* The selection test without its digest comparison.
SelectionTest_NoDigestCheck(rel, index, hs, tree, choice) ==
  IF rel \notin DOMAIN index THEN "select"
  ELSE IF rel \notin DOMAIN hs THEN "KeyError"
  ELSE IF converted_path(rel, choice) \notin DOMAIN tree THEN "select"
  ELSE "skip"

\* The selection test replaced by "every discovered file".
SelectionTest_SelectAll(rel, index, hs, tree, choice) == "select"

\* The selection test without its artifact-exists condition.
SelectionTest_NoArtifactCheck(rel, index, hs, tree, choice) ==
  IF rel \notin DOMAIN index THEN "select"
  ELSE IF rel \notin DOMAIN hs THEN "KeyError"
  ELSE IF index[rel] # hs[rel] THEN "select"
  ELSE "skip"

\* convert_files' selection test for one source (line 156); "KeyError" when
\* hashes[rel] is looked up for a file that was not hashed.
SelectionTest(rel, index, hs, tree, choice) ==
  LET out == converted_path(rel, choice) IN
  IF rel \notin DOMAIN index THEN "select"
  ELSE IF rel \notin DOMAIN hs THEN "KeyError"
  ELSE IF index[rel] # hs[rel] \/ out \notin DOMAIN tree THEN "select"
  ELSE "skip"

\* convert_files' selection loop over sources from position i on.
RECURSIVE SelectionLoop(_, _, _, _, _, _, _)
SelectionLoop(srcs, i, acc, index, hs, tree, choice) ==
  IF i > Len(srcs) THEN [raised |-> FALSE, to_convert |-> acc]
  ELSE LET t == SelectionTest(srcs[i], index, hs, tree, choice) IN
       IF t = "KeyError" THEN [raised |-> TRUE, to_convert |-> acc]
       ELSE SelectionLoop(srcs, i + 1,
                          IF t = "select" THEN Append(acc, srcs[i]) ELSE acc,
                          index, hs, tree, choice)

\* Step 4, first half: the hash pool has joined; convert_files selects the
\* files to convert and submits one task per file. An uncaught KeyError
\* ends main().
Detect ==
  /\ pc = "hash" /\ AllCollected
  /\ LET r == SelectionLoop(sources, 1, <<>>, hash_index, hashes, fs, docx_converter) IN
     IF r.raised
     THEN /\ pc' = "crashed"
          /\ UNCHANGED <<to_convert, tasks>>
     ELSE /\ pc' = "convert"
          /\ to_convert' = r.to_convert
          /\ tasks' = [f \in Range(r.to_convert) |-> "running"]
  /\ UNCHANGED <<file_index, diskIndex,
                 fs, option, diskHash, diskTok, docx_converter, hash_index, token_index,
                 sources, hashes, converted_rels, needs_count, 
                 early, summary, failed, nsaves, runsLeft, envLeft, faultsLeft, fsChanged,
                 before, prev>>

\* What a conversion task leaves at the artifact path: the converter's
\* output, nothing new (the converter failed before writing), or a
\* part-written output (the write itself failed).
ConversionEffect(tree, src, choice, outcome) ==
  LET out == converted_path(src, choice) IN
  CASE outcome = "ok" -> DictPut(tree, out, ConverterOutput(tree[src]))
    [] outcome = "raised" -> tree
    [] outcome = "raised_writing" -> DictPut(tree, out, TruncatedOutput(tree[src]))

ConversionOutcomes == {"ok", "raised", "raised_writing"}

\* A worker's _do_convert(src) returns or raises, and convert_files'
\* as_completed loop takes the finished future: the file is appended to
\* converted_rels, or the error is printed.
ConvertTask(f, outcome) ==
  /\ pc = "convert"
  /\ f \in DOMAIN tasks /\ tasks[f] = "running"
  /\ tasks' = [tasks EXCEPT ![f] = "collected"]
  /\ outcome = "ok" \/ faultsLeft > 0
  /\ faultsLeft' = IF outcome = "ok" THEN faultsLeft ELSE faultsLeft - 1
  /\ fs' = ConversionEffect(fs, f, docx_converter, outcome)
  /\ IF outcome = "ok"
     THEN converted_rels' = Append(converted_rels, f) /\ failed' = failed
     ELSE converted_rels' = converted_rels
          /\ failed' = [failed EXCEPT !.convert = @ \cup {f}]
  /\ UNCHANGED <<file_index, diskIndex,
                 option, diskHash, diskTok, pc, docx_converter, hash_index,
                 token_index, sources, hashes, to_convert, needs_count,
                 early, summary, nsaves, runsLeft, envLeft, fsChanged,
                 before, prev>>

\* Step 5 for new files only: an indexed file keeps its loaded digest.
UpdateHashIndex_NewOnly(index, hs) ==
  [rel \in DOMAIN index \cup DOMAIN hs |->
     IF rel \in DOMAIN index THEN index[rel] ELSE hs[rel]]

\* Step 5 left out: the index keeps the loaded digests.
UpdateHashIndex_Skipped(index, hs) == index

\* Step 5: hash_index[rel] = h for every hashed file.
UpdateHashIndex(index, hs) ==
  [rel \in DOMAIN index \cup DOMAIN hs |->
     IF rel \in DOMAIN hs THEN hs[rel] ELSE index[rel]]

\* The count selection without its "no entry yet" alternative: only the
\* files converted this run are counted.
NeedsCount_ConvertedOnly(hs, tindex, converted, tree, choice) ==
  {rel \in DOMAIN hs :
     rel \in Range(converted) /\ converted_path(rel, choice) \in DOMAIN tree}

\* The count selection without its "converted this run" condition.
NeedsCount_NoEntryOnly(hs, tindex, converted, tree, choice) ==
  {rel \in DOMAIN hs :
     LET out == converted_path(rel, choice) IN
     out \notin DOMAIN tindex /\ out \in DOMAIN tree}

\* The count selection without its "no entry yet" condition: every hashed
\* file with an artifact is counted.
NeedsCount_Always(hs, tindex, converted, tree, choice) ==
  {rel \in DOMAIN hs : converted_path(rel, choice) \in DOMAIN tree}

\* index_tokens' selection (lines 204-210).
NeedsCount(hs, tindex, converted, tree, choice) ==
  {rel \in DOMAIN hs :
     LET out == converted_path(rel, choice) IN
     /\ rel \in Range(converted) \/ out \notin DOMAIN tindex
     /\ out \in DOMAIN tree}

\* The conversion pool has joined: step 5, then index_tokens selects the
\* artifacts to count and submits one task per file (step 6).
MergeHashes ==
  /\ pc = "convert" /\ AllCollected
  /\ hash_index' = UpdateHashIndex(hash_index, hashes)
  /\ needs_count' = NeedsCount(hashes, token_index, converted_rels, fs, docx_converter)
  /\ tasks' = [f \in NeedsCount(hashes, token_index, converted_rels, fs, docx_converter)
                 |-> "running"]
  /\ pc' = "count"
  /\ UNCHANGED <<file_index, diskIndex,
                 fs, option, diskHash, diskTok, docx_converter, token_index, sources,
                 hashes, to_convert, converted_rels, early, summary,
                 failed, nsaves, runsLeft, envLeft, faultsLeft, fsChanged, before, prev>>

\* The count task with a failure that empties the token index.
CountTask_FailureClearsIndex(f, ok) ==
  /\ pc = "count"
  /\ f \in DOMAIN tasks /\ tasks[f] = "running"
  /\ tasks' = [tasks EXCEPT ![f] = "collected"]
  /\ ok \/ faultsLeft > 0
  /\ faultsLeft' = IF ok THEN faultsLeft ELSE faultsLeft - 1
  /\ IF ok
     THEN /\ token_index' =
               DictPut(token_index, converted_path(f, docx_converter),
                       count_tokens(fs[converted_path(f, docx_converter)]))
          /\ failed' = failed
     ELSE /\ token_index' = EmptyDict
          /\ failed' = [failed EXCEPT !.count = @ \cup {f}]
  /\ UNCHANGED <<file_index, diskIndex,
                 fs, option, diskHash, diskTok, pc, docx_converter, hash_index,
                 sources, hashes, to_convert, converted_rels, needs_count,
                 early, summary, nsaves, runsLeft, envLeft, fsChanged,
                 before, prev>>

\* A worker's _count(rel) returns or raises, and index_tokens' as_completed
\* loop takes the finished future: token_index[conv_rel] = tokens, or the
\* error is printed.
CountTask(f, ok) ==
  /\ pc = "count"
  /\ f \in DOMAIN tasks /\ tasks[f] = "running"
  /\ tasks' = [tasks EXCEPT ![f] = "collected"]
  /\ ok \/ faultsLeft > 0
  /\ faultsLeft' = IF ok THEN faultsLeft ELSE faultsLeft - 1
  /\ IF ok
     THEN /\ token_index' =
               DictPut(token_index, converted_path(f, docx_converter),
                       count_tokens(fs[converted_path(f, docx_converter)]))
          /\ failed' = failed
     ELSE /\ token_index' = token_index
          /\ failed' = [failed EXCEPT !.count = @ \cup {f}]
  /\ UNCHANGED <<file_index, diskIndex,
                 fs, option, diskHash, diskTok, pc, docx_converter, hash_index,
                 sources, hashes, to_convert, converted_rels, needs_count,
                 early, summary, nsaves, runsLeft, envLeft, fsChanged,
                 before, prev>>

\* Step 7 without its hash-index half.
PruneHashIndex_None(index, hs) == index

\* Step 7 on the hash index: drop the entries of files not hashed this run.
PruneHashIndex(index, hs) == DictRestrict(index, DOMAIN hs)

\* Step 7 without its token-index half.
PruneTokenIndex_None(tindex, hs, choice) == tindex

\* Step 7 on the token index: keep the artifact paths of the hashed files.
PruneTokenIndex(tindex, hs, choice) ==
  LET valid_converted ==
        {converted_path(rel, choice) : rel \in DOMAIN hs} \ {Unsupported}
  IN DictRestrict(tindex, valid_converted)

\* The count pool has joined: step 7.
Prune ==
  /\ pc = "count" /\ AllCollected
  /\ hash_index' = PruneHashIndex(hash_index, hashes)
  /\ token_index' = PruneTokenIndex(token_index, hashes, docx_converter)
  /\ pc' = "save_hash"
  /\ UNCHANGED <<file_index, diskIndex,
                 fs, option, diskHash, diskTok, docx_converter, sources, hashes,
                 to_convert, converted_rels, needs_count, tasks, 
                 early, summary, failed, nsaves, runsLeft, envLeft, faultsLeft, fsChanged,
                 before, prev>>

\* sum(index.values()).
RECURSIVE SumValues(_)
SumValues(index) ==
  IF DOMAIN index = {} THEN 0
  ELSE LET k == CHOOSE x \in DOMAIN index : TRUE
       IN index[k] + SumValues(DictRestrict(index, DOMAIN index \ {k}))

\* Step 9: the summary line (lines 333-336).
Summary(srcs, converted, tindex) ==
  [printed |-> TRUE, files |-> Len(srcs), converted |-> Len(converted),
   unchanged |-> Len(srcs) - Len(converted), total_tokens |-> SumValues(tindex)]

\* Step 8, first table (or the early return's first save): save_hash_index
\* writes the whole table.
SaveHash ==
  /\ pc = "save_hash"
  /\ diskHash' = WrittenTable(hash_index)
  /\ nsaves' = [nsaves EXCEPT !.hash = @ + 1]
  /\ pc' = "save_token"
  /\ UNCHANGED <<file_index, diskIndex,
                 fs, option, diskTok, docx_converter, hash_index, token_index, sources,
                 hashes, to_convert, converted_rels, needs_count, tasks, early,
                 summary, failed, runsLeft, envLeft, faultsLeft, fsChanged, before, prev>>

\* Step 8, second table: save_token_index writes the whole table; then main
\* returns (early return) or prints the summary (step 9).
SaveToken ==
  /\ pc = "save_token"
  /\ diskTok' = WrittenTable(token_index)
  /\ nsaves' = [nsaves EXCEPT !.token = @ + 1]
  /\ summary' = IF early THEN summary
                ELSE Summary(sources, converted_rels, token_index)
  /\ pc' = "done"
  /\ UNCHANGED <<file_index, diskIndex,
                 fs, option, diskHash, docx_converter, hash_index, token_index, sources,
                 hashes, to_convert, converted_rels, needs_count, tasks, early,
                 failed, runsLeft, envLeft, faultsLeft, fsChanged, before, prev>>

\* open() or a write raises OSError, or the process is killed, while
\* save_hash_index runs: main() ends there and the table stays as written
\* so far.
SaveHashFails(k) ==
  /\ pc = "save_hash"
  /\ k \in FailurePoints(hash_index)
  /\ faultsLeft > 0
  /\ faultsLeft' = faultsLeft - 1
  /\ diskHash' = InterruptedTable(diskHash, hash_index, k)
  /\ pc' = "aborted"
  /\ UNCHANGED <<file_index, diskIndex,
                 fs, option, diskTok, docx_converter, hash_index, token_index, sources,
                 hashes, to_convert, converted_rels, needs_count, tasks, early,
                 summary, failed, nsaves, runsLeft, envLeft, fsChanged, before, prev>>

\* The same while save_token_index runs.
SaveTokenFails(k) ==
  /\ pc = "save_token"
  /\ k \in FailurePoints(token_index)
  /\ faultsLeft > 0
  /\ faultsLeft' = faultsLeft - 1
  /\ diskTok' = InterruptedTable(diskTok, token_index, k)
  /\ pc' = "aborted"
  /\ UNCHANGED <<file_index, diskIndex,
                 fs, option, diskHash, docx_converter, hash_index, token_index, sources,
                 hashes, to_convert, converted_rels, needs_count, tasks, early,
                 summary, failed, nsaves, runsLeft, envLeft, fsChanged, before, prev>>

\* The most failure points a save has in the model: one row per path.
MaxFailurePoint == Cardinality(PathUniverse) + 1

Next ==
  \/ \E f \in SourceUniverse, b \in 1..MaxContent : CreateFile(f, b)
  \/ \E f \in SourceUniverse, b \in 1..MaxContent : EditFile(f, b)
  \/ \E p \in PathUniverse : DeleteFile(p)
  \/ ProcessExit
  \/ \E c \in ConverterChoices : ChangeOption(c)
  \/ StartRun
  \/ Discover
  \/ \E f \in SourceUniverse, ok \in BOOLEAN : HashTask(f, ok)
  \/ Detect
  \/ \E f \in SourceUniverse, o \in ConversionOutcomes : ConvertTask(f, o)
  \/ MergeHashes
  \/ \E f \in SourceUniverse, ok \in BOOLEAN : CountTask(f, ok)
  \/ Prune
  \/ SaveHash
  \/ SaveToken
  \/ \E k \in 0..MaxFailurePoint : SaveHashFails(k)
  \/ \E k \in 0..MaxFailurePoint : SaveTokenFails(k)

Spec == Init /\ [][Next]_vars

\* The run-local steps: what a single run can do.
NextOneRun ==
  \/ ProcessExit
  \/ StartRun
  \/ Discover
  \/ \E f \in SourceUniverse, ok \in BOOLEAN : HashTask(f, ok)
  \/ Detect
  \/ \E f \in SourceUniverse, o \in ConversionOutcomes : ConvertTask(f, o)
  \/ MergeHashes
  \/ \E f \in SourceUniverse, ok \in BOOLEAN : CountTask(f, ok)
  \/ Prune
  \/ SaveHash
  \/ SaveToken
  \/ \E k \in 0..MaxFailurePoint : SaveHashFails(k)
  \/ \E k \in 0..MaxFailurePoint : SaveTokenFails(k)

SpecOneRun == InitOneRun /\ [][NextOneRun]_vars

\* One source file over its life: runs of main() on a root that holds at most
\* FileA, which is created, rewritten or deleted, or whose artifact is
\* removed, between the runs.
InitOneFile ==
  /\ FreshTree
  /\ DOMAIN fs \subseteq {FileA}
  /\ runsLeft = MaxRuns
  /\ envLeft = MaxEnvSteps + 1
  /\ faultsLeft = MaxFaults

NextOneFile ==
  \/ \E b \in 1..MaxContent : CreateFile(FileA, b)
  \/ \E b \in 1..MaxContent : EditFile(FileA, b)
  \/ \E p \in {FileA, converted_path(FileA, DEFAULT_DOCX_CONVERTER)} : DeleteFile(p)
  \/ ProcessExit
  \/ StartRun
  \/ Discover
  \/ \E ok \in BOOLEAN : HashTask(FileA, ok)
  \/ Detect
  \/ \E o \in ConversionOutcomes : ConvertTask(FileA, o)
  \/ MergeHashes
  \/ \E ok \in BOOLEAN : CountTask(FileA, ok)
  \/ Prune
  \/ SaveHash
  \/ SaveToken
  \/ \E k \in 0..MaxFailurePoint : SaveHashFails(k)
  \/ \E k \in 0..MaxFailurePoint : SaveTokenFails(k)

SpecOneFile == InitOneFile /\ [][NextOneFile]_vars

\* Discovery over a root that holds more than sources: an upper-case
\* suffix, an e-mail suffix, a subdirectory, a dot-file, files below hidden
\* directories, an unsupported suffix, artifacts of an earlier run, a name
\* with a supported suffix that is a file or a directory, and the index
\* tables.
FileUpper == MkPath(<<>>, <<"c", "PDF">>)
FileMail == MkPath(<<>>, <<"c", "eml">>)
FileInSub == MkPath(<<"sub">>, <<"b", "docx">>)
DotFile == MkPath(<<>>, <<"", "a", "pdf">>)
FileInGit == MkPath(<<".git">>, <<"a", "pdf">>)
FileInNestedHidden == MkPath(<<"sub", ".claude">>, <<"b", "docx">>)
TextFile == MkPath(<<>>, <<"notes", "txt">>)
ArtifactA == MkPath(<<>>, <<"a", "pdf", "md">>)
ArtifactB == MkPath(<<>>, <<"b", "docx", "json">>)
NotesPdf == MkPath(<<>>, <<"notes", "pdf">>)
DiscoveryUniverse ==
  {FileA, FileB, FileUpper, FileMail, FileInSub, DotFile, FileInGit,
   FileInNestedHidden, TextFile, ArtifactA, ArtifactB}

InitDiscovery ==
  /\ \E S \in SUBSET DiscoveryUniverse :
       \E n \in {"absent", "file", "directory"} :
         fs = [p \in S \cup (IF n = "absent" THEN {} ELSE {NotesPdf}) |->
                 IF p = NotesPdf /\ n = "directory" THEN DirEntry
                 ELSE IF p \in {ArtifactA, ArtifactB} THEN ConverterOutput(1)
                 ELSE 1]
  /\ option = DEFAULT_DOCX_CONVERTER
  /\ diskHash \in {NoTable, WrittenTable(EmptyDict)}
  /\ diskTok \in {NoTable, WrittenTable(EmptyDict)}
  /\ pc = "idle"
  /\ docx_converter = DEFAULT_DOCX_CONVERTER
  /\ hash_index = EmptyDict
  /\ token_index = EmptyDict
  /\ sources = <<>>
  /\ hashes = EmptyDict
  /\ to_convert = <<>>
  /\ converted_rels = <<>>
  /\ needs_count = {}
  /\ tasks = EmptyDict
  /\ early = FALSE
  /\ summary = NoSummary
  /\ failed = NoFailures
  /\ nsaves = NoSaves
  /\ fsChanged = FALSE
  /\ before = NoBefore
  /\ prev = NoPrev
  /\ file_index = EmptyDict
  /\ diskIndex = NoTable
  /\ runsLeft = 1
  /\ envLeft = 0
  /\ faultsLeft = 0

NextDiscovery ==
  \/ StartRun
  \/ Discover

SpecDiscovery == InitDiscovery /\ [][NextDiscovery]_vars

\* ------------------------------------------- main.py: the single-index run
\* main.py keeps one table, file -> <<hash, tokens>>, has no converter
\* option and tests suffixes as written.

\* The variables of the two-table pipeline, which main.py does not have.
twoTableVars == <<option, diskHash, diskTok, docx_converter, hash_index,
                  token_index, nsaves, fsChanged, before, prev>>

\* main.py's converted_path(): x.pdf -> x.pdf.md, x.docx -> x.docx.json.
main_converted_path(source) ==
  IF PathSuffix(source) = "pdf"
  THEN MkPath(source.dir, Append(source.name, "md"))
  ELSE IF PathSuffix(source) = "docx"
  THEN MkPath(source.dir, Append(source.name, "json"))
  ELSE Unsupported

\* The artifact paths main.py writes.
MainArtifacts == {main_converted_path(s) : s \in SourceUniverse}

\* load_index(): {} without the table; a row is file, hash, tokens.
load_index(table) ==
  IF ~table.exists THEN EmptyDict
  ELSE IF ~table.header THEN EmptyDict
  ELSE RowsToDict(table.rows, EmptyDict)

\* Step 1: load the index.
MainStart ==
  /\ pc = "idle" /\ runsLeft > 0
  /\ runsLeft' = runsLeft - 1
  /\ file_index' = load_index(diskIndex)
  /\ pc' = "m_discover"
  /\ UNCHANGED <<fs, diskIndex, sources, hashes, to_convert, converted_rels,
                 needs_count, tasks, early, summary, failed, envLeft,
                 faultsLeft, twoTableVars>>

\* Step 2: sorted(rglob("*.pdf")) + sorted(rglob("*.docx")).
MainDiscovered(tree) ==
  SortedSeq({p \in DOMAIN tree : PathSuffix(p) = "pdf"})
  \o SortedSeq({p \in DOMAIN tree : PathSuffix(p) = "docx"})

\* Step 2, and either the early return or the submission of one hash task
\* per source (step 3).
MainDiscover ==
  /\ pc = "m_discover"
  /\ sources' = MainDiscovered(fs)
  /\ IF MainDiscovered(fs) = <<>>
     THEN /\ early' = TRUE
          /\ pc' = "m_save"
          /\ tasks' = tasks
     ELSE /\ early' = early
          /\ pc' = "m_hash"
          /\ tasks' = [f \in Range(MainDiscovered(fs)) |-> "running"]
  /\ UNCHANGED <<fs, file_index, diskIndex, hashes, to_convert, converted_rels,
                 needs_count, summary, failed, runsLeft, envLeft, faultsLeft,
                 twoTableVars>>

\* Step 3: a hash task ends and main's as_completed loop takes it.
MainHashTask(f, ok) ==
  /\ pc = "m_hash"
  /\ f \in DOMAIN tasks /\ tasks[f] = "running"
  /\ tasks' = [tasks EXCEPT ![f] = "collected"]
  /\ ok \/ faultsLeft > 0
  /\ faultsLeft' = IF ok THEN faultsLeft ELSE faultsLeft - 1
  /\ IF ok
     THEN hashes' = DictPut(hashes, f, hash_file(fs[f])) /\ failed' = failed
     ELSE hashes' = hashes /\ failed' = [failed EXCEPT !.hash = @ \cup {f}]
  /\ UNCHANGED <<fs, file_index, diskIndex, pc, sources, to_convert,
                 converted_rels, needs_count, early, summary, runsLeft,
                 envLeft, twoTableVars>>

\* convert_files' selection test (main.py line 115): no entry, or the
\* indexed hash differs; "KeyError" when hashes[rel] is looked up for a
\* file that was not hashed.
MainSelectionTest(rel, idx, hs) ==
  IF rel \notin DOMAIN idx THEN "select"
  ELSE IF rel \notin DOMAIN hs THEN "KeyError"
  ELSE IF idx[rel][1] # hs[rel] THEN "select"
  ELSE "skip"

\* Step 4, first half: the selection loop and the submission of one
\* conversion task per selected file.
MainDetect ==
  /\ pc = "m_hash" /\ AllCollected
  /\ IF \E i \in 1..Len(sources) :
          MainSelectionTest(sources[i], file_index, hashes) = "KeyError"
     THEN /\ pc' = "crashed"
          /\ UNCHANGED <<to_convert, tasks>>
     ELSE /\ pc' = "m_convert"
          /\ to_convert' =
               SelectSeq(sources,
                         LAMBDA src : MainSelectionTest(src, file_index, hashes) = "select")
          /\ tasks' = [f \in {src \in Range(sources) :
                               MainSelectionTest(src, file_index, hashes) = "select"}
                         |-> "running"]
  /\ UNCHANGED <<fs, file_index, diskIndex, sources, hashes, converted_rels,
                 needs_count, early, summary, failed, runsLeft, envLeft,
                 faultsLeft, twoTableVars>>

\* What _do_convert leaves at the artifact path.
MainConversionEffect(tree, src, outcome) ==
  LET out == main_converted_path(src) IN
  CASE outcome = "ok" -> DictPut(tree, out, ConverterOutput(tree[src]))
    [] outcome = "raised" -> tree
    [] outcome = "raised_writing" -> DictPut(tree, out, TruncatedOutput(tree[src]))

\* Step 4, second half: a conversion task ends and convert_files'
\* as_completed loop takes it.
MainConvertTask(f, outcome) ==
  /\ pc = "m_convert"
  /\ f \in DOMAIN tasks /\ tasks[f] = "running"
  /\ tasks' = [tasks EXCEPT ![f] = "collected"]
  /\ outcome = "ok" \/ faultsLeft > 0
  /\ faultsLeft' = IF outcome = "ok" THEN faultsLeft ELSE faultsLeft - 1
  /\ fs' = MainConversionEffect(fs, f, outcome)
  /\ IF outcome = "ok"
     THEN converted_rels' = Append(converted_rels, f) /\ failed' = failed
     ELSE converted_rels' = converted_rels
          /\ failed' = [failed EXCEPT !.convert = @ \cup {f}]
  /\ UNCHANGED <<file_index, diskIndex, pc, sources, hashes, to_convert,
                 needs_count, early, summary, runsLeft, envLeft,
                 twoTableVars>>

\* Step 5 (main.py lines 237-245): an entry whose hash is unchanged stays;
\* otherwise, for a file not converted this run,
\* index[rel] = (h, index.get(rel, (h, 0))[1]).
MainUpdateIndex(idx, hs, converted) ==
  [rel \in DOMAIN idx \cup (DOMAIN hs \ Range(converted)) |->
     IF rel \in DOMAIN hs
        /\ ~(rel \in DOMAIN idx /\ idx[rel][1] = hs[rel])
        /\ rel \notin Range(converted)
     THEN <<hs[rel], IF rel \in DOMAIN idx THEN idx[rel][2] ELSE 0>>
     ELSE idx[rel]]

\* index_tokens' selection: converted this run or without an entry, and the
\* artifact exists.
MainNeedsCount(hs, idx, converted, tree) ==
  {rel \in DOMAIN hs :
     /\ rel \in Range(converted) \/ rel \notin DOMAIN idx
     /\ main_converted_path(rel) \in DOMAIN tree}

\* The conversion pool has joined: step 5, then index_tokens selects the
\* files to count and submits one task per file.
MainMergeHashes ==
  /\ pc = "m_convert" /\ AllCollected
  /\ file_index' = MainUpdateIndex(file_index, hashes, converted_rels)
  /\ needs_count' = MainNeedsCount(hashes, MainUpdateIndex(file_index, hashes, converted_rels),
                                   converted_rels, fs)
  /\ tasks' = [f \in MainNeedsCount(hashes,
                                    MainUpdateIndex(file_index, hashes, converted_rels),
                                    converted_rels, fs) |-> "running"]
  /\ pc' = "m_count"
  /\ UNCHANGED <<fs, diskIndex, sources, hashes, to_convert, converted_rels,
                 early, summary, failed, runsLeft, envLeft, faultsLeft,
                 twoTableVars>>

\* Step 6: a count task ends and index_tokens' as_completed loop takes it:
\* index[rel] = (hashes[rel], tokens), or the error is printed.
MainCountTask(f, ok) ==
  /\ pc = "m_count"
  /\ f \in DOMAIN tasks /\ tasks[f] = "running"
  /\ tasks' = [tasks EXCEPT ![f] = "collected"]
  /\ ok \/ faultsLeft > 0
  /\ faultsLeft' = IF ok THEN faultsLeft ELSE faultsLeft - 1
  /\ IF ok
     THEN file_index' = DictPut(file_index, f,
                           <<hashes[f], count_tokens(fs[main_converted_path(f)])>>)
          /\ failed' = failed
     ELSE file_index' = file_index
          /\ failed' = [failed EXCEPT !.count = @ \cup {f}]
  /\ UNCHANGED <<fs, diskIndex, pc, sources, hashes, to_convert,
                 converted_rels, needs_count, early, summary, runsLeft,
                 envLeft, twoTableVars>>

\* The count pool has joined: step 7 drops the entries of files not hashed
\* this run.
MainPrune ==
  /\ pc = "m_count" /\ AllCollected
  /\ file_index' = DictRestrict(file_index, DOMAIN hashes)
  /\ pc' = "m_save"
  /\ UNCHANGED <<fs, diskIndex, sources, hashes, to_convert, converted_rels,
                 needs_count, tasks, early, summary, failed, runsLeft,
                 envLeft, faultsLeft, twoTableVars>>

\* sum(t for _, t in index.values()).
RECURSIVE MainSumTokens(_)
MainSumTokens(idx) ==
  IF DOMAIN idx = {} THEN 0
  ELSE LET k == CHOOSE x \in DOMAIN idx : TRUE
       IN idx[k][2] + MainSumTokens(DictRestrict(idx, DOMAIN idx \ {k}))

\* Step 8 (or the early return's save): save_index writes the whole table;
\* then main returns (early return) or prints the summary (step 9).
MainSave ==
  /\ pc = "m_save"
  /\ diskIndex' = WrittenTable(file_index)
  /\ summary' = IF early THEN summary
                ELSE [printed |-> TRUE, files |-> Len(sources),
                      converted |-> Len(converted_rels),
                      unchanged |-> Len(sources) - Len(converted_rels),
                      total_tokens |-> MainSumTokens(file_index)]
  /\ pc' = "done"
  /\ UNCHANGED <<fs, file_index, sources, hashes, to_convert, converted_rels,
                 needs_count, tasks, early, failed, runsLeft, envLeft,
                 faultsLeft, twoTableVars>>

\* open() or a write raises while save_index runs: main() ends there.
MainSaveFails(k) ==
  /\ pc = "m_save"
  /\ k \in FailurePoints(file_index)
  /\ faultsLeft > 0
  /\ faultsLeft' = faultsLeft - 1
  /\ diskIndex' = InterruptedTable(diskIndex, file_index, k)
  /\ pc' = "aborted"
  /\ UNCHANGED <<fs, file_index, sources, hashes, to_convert, converted_rels,
                 needs_count, tasks, early, summary, failed, runsLeft,
                 envLeft, twoTableVars>>

\* Runs of main.py separated by changes to the tree.
NextMain ==
  \/ \E f \in SourceUniverse, b \in 1..MaxContent : CreateFile(f, b)
  \/ \E f \in SourceUniverse, b \in 1..MaxContent : EditFile(f, b)
  \/ \E p \in SourceUniverse \cup MainArtifacts : DeleteFile(p)
  \/ ProcessExit
  \/ MainStart
  \/ MainDiscover
  \/ \E f \in SourceUniverse, ok \in BOOLEAN : MainHashTask(f, ok)
  \/ MainDetect
  \/ \E f \in SourceUniverse, o \in ConversionOutcomes : MainConvertTask(f, o)
  \/ MainMergeHashes
  \/ \E f \in SourceUniverse, ok \in BOOLEAN : MainCountTask(f, ok)
  \/ MainPrune
  \/ MainSave
  \/ \E k \in 0..MaxFailurePoint : MainSaveFails(k)

SpecMain == Init /\ [][NextMain]_vars

\* ------------------------------------------------------------------ claims
\* The keys of an index table on disk.
TableKeys(table) == {table.rows[i][1] : i \in 1..Len(table.rows)}

\* C1: in convert_files' selection step a discovered file is selected for
\* conversion iff it has no entry in the hash index loaded at run start, or
\* its digest computed this run differs from the indexed digest, or its
\* expected artifact does not exist; the step changes neither index mapping
\* nor any file.
C1_SelectionRule ==
  [][(pc = "hash" /\ pc' = "convert") =>
       /\ \A f \in Range(sources) :
            (f \in Range(to_convert')) <=>
              \/ f \notin DOMAIN before.hash_index
              \/ (f \in DOMAIN hashes /\ hashes[f] # before.hash_index[f])
              \/ converted_path(f, docx_converter) \notin DOMAIN fs
       /\ Range(to_convert') \subseteq Range(sources)
       /\ UNCHANGED <<fs, diskHash, diskTok, hash_index, token_index>>]_vars

\* The selection has just been made in a run that skips one discovered file
\* and selects another only because its artifact is missing.
C1_Witness ==
  /\ pc = "convert"
  /\ \A f \in DOMAIN tasks : tasks[f] = "running"
  /\ Range(sources) \ Range(to_convert) # {}
  /\ \E g \in Range(to_convert) :
       /\ g \in DOMAIN before.hash_index
       /\ g \in DOMAIN hashes
       /\ hashes[g] = before.hash_index[g]
       /\ converted_path(g, docx_converter) \notin DOMAIN before.fs

\* The run did no conversion and no count and rewrote both tables with the
\* contents they had when it started.
NoRework ==
  /\ to_convert = <<>>
  /\ needs_count = {}
  /\ diskHash = before.diskHash
  /\ diskTok = before.diskTok

\* C2 as stated: a run that follows a complete run with no change in between
\* performs zero conversions and zero counts and rewrites both tables with
\* the contents the first run persisted.
C2_IdempotentAfterAnyRun ==
  (pc = "done" /\ prev.done /\ before.quiet) => NoRework

\* C2, amended: the same for a run that follows a complete run in which no
\* unit of work failed.
C2_IdempotentAfterCleanRun ==
  (pc = "done" /\ prev.done /\ prev.clean /\ before.quiet) => NoRework

\* A second run over two indexed files, straight after a clean complete run.
C2_Witness ==
  /\ pc = "done" /\ prev.done /\ prev.clean /\ before.quiet
  /\ Len(sources) = 2
  /\ Len(diskHash.rows) = 2 /\ Len(diskTok.rows) = 2
  /\ nsaves = [hash |-> 1, token |-> 1]

\* C3: after a complete run the key set of the persisted hash index is
\* exactly the set of source files discovered in that run (no key of a
\* deleted file remains). Stated for the runs in which no unit of work
\* failed, where the discovered and the hashed files are the same.
C3_HashKeysAreDiscovered ==
  (pc = "done" /\ ~AnyFailure) => TableKeys(diskHash) = Range(sources)

\* C4: after a complete run every key of the persisted token index is the
\* artifact path, under the run's converter choice, of a key of the persisted
\* hash index, and of a source file that exists.
C4_TokenKeysDerivable ==
  pc = "done" =>
    \A k \in TableKeys(diskTok) :
      /\ \E h \in TableKeys(diskHash) : converted_path(h, docx_converter) = k
      /\ \E f \in Range(Discovered(fs)) : converted_path(f, docx_converter) = k

\* The indexed files that are gone when the run starts.
DeletedSources == {f \in DOMAIN before.hash_index : f \notin DOMAIN before.fs}

\* The run follows a clean complete run under the same converter choice, and
\* every source file in the tree is as that run indexed it.
OthersUntouched ==
  /\ prev.done /\ prev.clean /\ docx_converter = prev.converter
  /\ \A g \in Range(Discovered(before.fs)) :
       /\ g \in DOMAIN before.hash_index
       /\ before.hash_index[g] = hash_file(before.fs[g])
       /\ converted_path(g, docx_converter) \in DOMAIN before.fs
       /\ converted_path(g, docx_converter) \in DOMAIN before.token_index

\* C5: when previously indexed source files have been deleted, the run
\* leaves neither their hash-index entries nor the token-index entries of
\* their artifacts, and every other entry of both tables is as before the
\* run, also when the deleted file was the only one.
C5_DeletedFilePruned ==
  (pc = "done" /\ ~AnyFailure /\ DeletedSources # {} /\ OthersUntouched) =>
    /\ load_hash_index(diskHash) =
         DictRestrict(before.hash_index, DOMAIN before.hash_index \ DeletedSources)
    /\ load_token_index(diskTok) =
         DictRestrict(before.token_index,
                      DOMAIN before.token_index \
                        {converted_path(f, docx_converter) : f \in DeletedSources})

\* C6: the failure of one file's unit of work never aborts the run, also
\* when hashing fails for a file that has an entry in the loaded hash index.
C6_FileFailureNeverAborts ==
  AnyFailure => pc # "crashed"

\* C7: a discovered file whose hashing failed is never selected for
\* conversion, never dispatched to a converter and never token-counted in
\* that run.
C7_HashFailedTakesNoPart ==
  \A f \in failed.hash :
    /\ f \notin Range(to_convert)
    /\ f \notin needs_count
    /\ pc \in {"convert", "count"} => f \notin DOMAIN tasks

\* C8: every run ends with both index tables written exactly once (a run
\* ended by a failure to write a table aside).
C8_PersistedExactlyOnce ==
  /\ nsaves.hash <= 1 /\ nsaves.token <= 1
  /\ pc \in {"done", "crashed"} => nsaves = [hash |-> 1, token |-> 1]

\* C9: when writing an index table fails, each table file holds either its
\* complete previous contents or its complete new contents.
C9_NoPartialTable ==
  pc = "aborted" =>
    /\ diskHash \in {before.diskHash, WrittenTable(hash_index)}
    /\ diskTok \in {before.diskTok, WrittenTable(token_index)}

\* Every selected file but the one whose conversion failed is converted,
\* counted, and in both persisted tables with this run's digest and count.
OthersIndexed ==
  \A g \in Range(to_convert) \ failed.convert :
    LET out == converted_path(g, docx_converter) IN
    /\ g \in Range(converted_rels)
    /\ g \in needs_count /\ g \notin failed.count
    /\ g \in TableKeys(diskHash)
    /\ load_hash_index(diskHash)[g] = hash_file(fs[g])
    /\ out \in TableKeys(diskTok)
    /\ load_token_index(diskTok)[out] = count_tokens(fs[out])

\* C10 as stated: if conversion fails for exactly one of the selected files,
\* the others are converted, counted and persisted. Stated for the runs in
\* which every discovered file was hashed.
C10_OthersIndexedWhenOneFails ==
  (pc = "done" /\ failed.hash = {} /\ Cardinality(failed.convert) = 1)
    => OthersIndexed

\* C10, amended: the same when no other unit of work (hash or token count)
\* fails in the run.
C10_OthersIndexedWhenOnlyOneFails ==
  (pc = "done" /\ failed.hash = {} /\ failed.count = {}
     /\ Cardinality(failed.convert) = 1)
    => OthersIndexed

\* A complete run that selected two files and failed to convert one.
C10_Witness ==
  /\ pc = "done" /\ failed.hash = {} /\ failed.count = {}
  /\ Cardinality(failed.convert) = 1
  /\ Len(to_convert) = 2

\* C11: when a file was hashed in a run and its conversion failed in that
\* run, the persisted hash-index entry of the file holds the digest computed
\* in that run.
C11_HashAdvancesOnFailedConversion ==
  pc = "done" =>
    \A f \in failed.convert \cap DOMAIN hashes :
      /\ f \in TableKeys(diskHash)
      /\ load_hash_index(diskHash)[f] = hashes[f]

\* A complete run in which the conversion of an indexed file with a changed
\* digest failed.
C11_Witness ==
  /\ pc = "done"
  /\ \E f \in failed.convert \cap DOMAIN hashes :
       /\ f \in DOMAIN before.hash_index
       /\ before.hash_index[f] # hashes[f]

\* convert_files has made this run's selection.
Selected ==
  pc \in {"convert", "count", "save_hash", "save_token", "done"} /\ ~early

\* The files that the previous run hashed and failed to convert, when that
\* run was complete and nothing changed between it and the current run.
FailedLastRun ==
  IF prev.done /\ before.quiet
  THEN prev.failed.convert \cap prev.hashed
  ELSE {}

\* C12 as stated: a file whose conversion failed in one run is selected for
\* conversion again in the next run with no change in between, whether or
\* not an older artifact of it exists.
C12_FailedConversionRetried ==
  Selected => \A f \in FailedLastRun : f \in Range(to_convert)

\* C12, amended: the hash-index entry of such a file holds its current
\* digest when the next run starts, and that run selects the file iff no
\* artifact of it exists.
C12_FailedConversionRetriedIffNoArtifact ==
  Selected =>
    \A f \in FailedLastRun :
      /\ f \in DOMAIN before.hash_index
      /\ before.hash_index[f] = hash_file(before.fs[f])
      /\ f \in Range(to_convert)
           <=> converted_path(f, docx_converter) \notin DOMAIN before.fs

\* The run after a failed conversion of a file without artifact has selected
\* the file again.
C12_Witness ==
  /\ pc = "convert"
  /\ \E f \in FailedLastRun :
       /\ f \in Range(to_convert)
       /\ converted_path(f, docx_converter) \notin DOMAIN before.fs

\* C13 as stated: once a run has recorded the digest of a file whose
\* conversion failed, the next runs with the content unchanged do not
\* select the file, also when it has no artifact.
C13_FailedConversionNotRetried ==
  Selected => \A f \in FailedLastRun : f \notin Range(to_convert)

\* C13, amended: such a file is not selected, and the run leaves its
\* artifact and its recorded digest as they were, for as long as a file
\* exists at its artifact path; while none exists every run selects it.
C13_NotRetriedWhileArtifactExists ==
  \A f \in FailedLastRun :
    LET out == converted_path(f, docx_converter) IN
    /\ (Selected /\ out \in DOMAIN before.fs) =>
         /\ f \notin Range(to_convert)
         /\ out \in DOMAIN fs /\ fs[out] = before.fs[out]
    /\ (pc = "done" /\ out \in DOMAIN before.fs) =>
         /\ f \in TableKeys(diskHash)
         /\ load_hash_index(diskHash)[f] = before.hash_index[f]
    /\ (Selected /\ out \notin DOMAIN before.fs) => f \in Range(to_convert)

\* The run after a failed conversion of a changed file has ended without
\* selecting the file, whose older artifact is still on disk.
C13_Witness ==
  /\ pc = "done"
  /\ \E f \in FailedLastRun :
       /\ f \notin Range(to_convert)
       /\ converted_path(f, docx_converter) \in DOMAIN fs
       /\ fs[converted_path(f, docx_converter)] # ConverterOutput(fs[f])
       /\ fs[converted_path(f, docx_converter)] # TruncatedOutput(fs[f])

\* When the run started the file's recorded digest was the digest of its
\* content, and a file that is not the conversion of that content was at its
\* artifact path.
StaleArtifactAtStart(f) ==
  LET out == converted_path(f, docx_converter) IN
  /\ f \in DOMAIN before.fs /\ f \in DOMAIN before.hash_index
  /\ before.hash_index[f] = hash_file(before.fs[f])
  /\ out \in DOMAIN before.fs
  /\ before.fs[out] # ConverterOutput(before.fs[f])

\* C14: a run in which the conversion of a changed file fails while an older
\* artifact exists leaves the new digest recorded and the artifact
\* unconverted (as it was, or part-written); every later run that finds the
\* file so (content not changed again, artifact still there) neither
\* selects it nor touches the artifact,
\* and leaves it so; a run that finds the content changed again or the
\* artifact gone selects the file.
C14_StaleArtifactUntilChange ==
  \A f \in SourceUniverse :
    LET out == converted_path(f, docx_converter) IN
    /\ ( /\ pc = "done"
         /\ f \in failed.convert /\ f \in DOMAIN hashes
         /\ f \in DOMAIN before.hash_index
         /\ before.hash_index[f] # hashes[f]
         /\ out \in DOMAIN before.fs )
       => /\ f \in TableKeys(diskHash)
          /\ load_hash_index(diskHash)[f] = hash_file(fs[f])
          /\ out \in DOMAIN fs
          /\ fs[out] \in {before.fs[out], TruncatedOutput(fs[f])}
    /\ (Selected /\ StaleArtifactAtStart(f))
       => /\ f \notin Range(to_convert)
          /\ out \in DOMAIN fs /\ fs[out] = before.fs[out]
    /\ (pc = "done" /\ StaleArtifactAtStart(f))
       => /\ f \in TableKeys(diskHash)
          /\ load_hash_index(diskHash)[f] = hash_file(fs[f])
    /\ ( /\ Selected
         /\ f \in DOMAIN before.fs /\ f \in DOMAIN before.hash_index
         /\ \/ before.hash_index[f] # hash_file(before.fs[f])
            \/ out \notin DOMAIN before.fs )
       => f \in Range(to_convert)

\* The previous run failed to convert the file and left an older, complete
\* artifact; the content was then changed again, and the current run has
\* selected the file.
C14_Witness ==
  /\ pc = "convert"
  /\ prev.done /\ ~before.quiet
  /\ \E f \in prev.failed.convert \cap prev.hashed :
       LET out == converted_path(f, docx_converter) IN
       /\ f \in Range(to_convert)
       /\ f \in DOMAIN before.hash_index
       /\ before.hash_index[f] # hash_file(before.fs[f])
       /\ out \in DOMAIN before.fs
       /\ \E b \in 1..MaxContent : before.fs[out] = ConverterOutput(b)

\* The indexed source files whose content is not what the index records,
\* when the run starts.
ChangedAtStart ==
  {f \in Range(Discovered(before.fs)) :
     /\ f \in DOMAIN before.hash_index
     /\ before.hash_index[f] # hash_file(before.fs[f])}

\* The indexed source files with unchanged content and an existing artifact,
\* when the run starts.
UnchangedAtStart ==
  {g \in Range(Discovered(before.fs)) :
     /\ g \in DOMAIN before.hash_index
     /\ before.hash_index[g] = hash_file(before.fs[g])
     /\ converted_path(g, docx_converter) \in DOMAIN before.fs}

\* A complete run, with no failed conversion, over one changed file and
\* otherwise unchanged files.
OneFileChanged ==
  /\ pc = "done" /\ failed.convert = {}
  /\ Cardinality(ChangedAtStart) = 1
  /\ Range(sources) = ChangedAtStart \cup UnchangedAtStart

\* The persisted hash entry of g is the one the run loaded.
HashEntryKept(g) ==
  /\ g \in TableKeys(diskHash)
  /\ load_hash_index(diskHash)[g] = before.hash_index[g]

\* The persisted token entry of g's artifact (or its absence) is the one the
\* run loaded.
TokenEntryKept(g) ==
  LET out == converted_path(g, docx_converter) IN
  /\ out \in TableKeys(diskTok) <=> out \in DOMAIN before.token_index
  /\ out \in TableKeys(diskTok) =>
       load_token_index(diskTok)[out] = before.token_index[out]

\* C15 as stated: after the content of one indexed file has changed, the run
\* converts exactly that file and counts exactly that file; every file with
\* unchanged content and existing artifact is neither converted nor counted
\* and keeps its two index entries. Stated for the runs in which no
\* conversion fails.
C15_ChangeDetection ==
  OneFileChanged =>
    /\ Range(to_convert) = ChangedAtStart
    /\ needs_count = ChangedAtStart
    /\ \A g \in UnchangedAtStart : HashEntryKept(g) /\ TokenEntryKept(g)

\* C15, amended: the same for the unchanged files whose artifact has a
\* token-index entry; an unchanged file whose artifact has none is counted.
C15_ChangeDetectionForCountedFiles ==
  OneFileChanged =>
    /\ Range(to_convert) = ChangedAtStart
    /\ needs_count =
         ChangedAtStart \cup
         {g \in UnchangedAtStart :
            converted_path(g, docx_converter) \notin DOMAIN before.token_index}
    /\ \A g \in UnchangedAtStart :
         /\ HashEntryKept(g)
         /\ converted_path(g, docx_converter) \in DOMAIN before.token_index
              => TokenEntryKept(g)

\* A complete run over two indexed files, one of them changed: it converted
\* and counted the changed one only.
C15_Witness ==
  /\ OneFileChanged
  /\ UnchangedAtStart # {}
  /\ Range(converted_rels) = ChangedAtStart
  /\ needs_count = ChangedAtStart
  /\ failed.count = {}

\* When the run started the file's recorded digest was the digest of its
\* content and no file was at its artifact path.
MissingArtifactAtStart(f) ==
  /\ f \in DOMAIN before.fs /\ f \in DOMAIN before.hash_index
  /\ before.hash_index[f] = hash_file(before.fs[f])
  /\ converted_path(f, docx_converter) \notin DOMAIN before.fs

\* The conversion pool of the run has joined.
Converted == pc \in {"count", "save_hash", "save_token", "done"} /\ ~early

\* C16: a file whose digest equals its indexed digest but whose artifact does
\* not exist at the start of a run is selected for conversion in that run;
\* its conversion, unless it fails, writes the artifact and is followed by a
\* count of the artifact, and that count, unless it fails, replaces whatever
\* token-index entry the artifact path had.
C16_MissingArtifactRecovered ==
  \A f \in SourceUniverse :
    LET out == converted_path(f, docx_converter) IN
    MissingArtifactAtStart(f) =>
      /\ Selected => f \in Range(to_convert)
      /\ (Converted /\ f \notin failed.convert) =>
           /\ f \in Range(converted_rels)
           /\ out \in DOMAIN fs /\ fs[out] = ConverterOutput(fs[f])
           /\ f \in needs_count
      /\ (pc = "done" /\ f \notin failed.convert \cup failed.count) =>
           /\ out \in TableKeys(diskTok)
           /\ load_token_index(diskTok)[out] = count_tokens(fs[out])

\* A complete run found an indexed, unchanged file without its artifact and
\* with a token-index entry, and persisted another count for it.
C16_Witness ==
  /\ pc = "done"
  /\ \E f \in SourceUniverse :
       LET out == converted_path(f, docx_converter) IN
       /\ MissingArtifactAtStart(f)
       /\ f \in Range(converted_rels)
       /\ out \in DOMAIN before.token_index
       /\ out \in TableKeys(diskTok)
       /\ load_token_index(diskTok)[out] # before.token_index[out]

\* C17: in the step that selects the files to count, a file is selected iff
\* its digest was computed this run, its artifact exists on disk, and it was
\* converted this run or its artifact path has no token-index entry; one
\* count task is submitted per selected file and for no other file.
C17_CountRule ==
  [][(pc = "convert" /\ pc' = "count") =>
       /\ \A f \in PathUniverse :
            (f \in needs_count') <=>
              /\ f \in DOMAIN hashes
              /\ converted_path(f, docx_converter) \in DOMAIN fs
              /\ \/ f \in Range(converted_rels)
                 \/ converted_path(f, docx_converter) \notin DOMAIN token_index
       /\ needs_count' \subseteq PathUniverse
       /\ DOMAIN tasks' = needs_count'
       /\ UNCHANGED <<fs, token_index, hashes, converted_rels>>]_vars

\* The count selection has just been made in a run that counts one file only
\* because its artifact has no token-index entry and leaves out another
\* whose artifact has one.
C17_Witness ==
  /\ pc = "count"
  /\ \A f \in DOMAIN tasks : tasks[f] = "running"
  /\ \E f \in needs_count :
       /\ f \notin Range(converted_rels)
       /\ converted_path(f, docx_converter) \notin DOMAIN token_index
  /\ \E g \in DOMAIN hashes \ needs_count :
       converted_path(g, docx_converter) \in DOMAIN token_index

\* The files whose count failed in the previous run, when that run was
\* complete and nothing changed between it and the current run.
CountFailedLastRun ==
  IF prev.done /\ before.quiet THEN prev.failed.count ELSE {}

\* index_tokens has made this run's selection.
CountSelected == pc \in {"count", "save_hash", "save_token", "done"} /\ ~early

\* C18: after a token-count failure for an artifact in one run, the next
\* run, with no change in between, counts that artifact again, both when the
\* artifact path has no token-index entry and when it has an older one.
C18_CountRetriedNextRun ==
  CountSelected => \A f \in CountFailedLastRun : f \in needs_count

\* C19: when counting fails for an artifact, the token index has for that
\* artifact the entry, or the absence of entry, that it had before the count
\* stage, and the artifacts whose count succeeded have the count of their
\* text.
C19_CountFailureFrame ==
  CountSelected =>
    \A f \in needs_count :
      LET out == converted_path(f, docx_converter) IN
      /\ f \in failed.count =>
           /\ out \in DOMAIN token_index <=> out \in DOMAIN before.token_index
           /\ out \in DOMAIN token_index =>
                token_index[out] = before.token_index[out]
      /\ (tasks[f] = "collected" /\ f \notin failed.count) =>
           /\ out \in DOMAIN token_index
           /\ token_index[out] = count_tokens(fs[out])

\* The count stage of a run has ended with one failed count and one count
\* that succeeded.
C19_Witness ==
  /\ pc = "count" /\ AllCollected
  /\ failed.count # {}
  /\ needs_count \ failed.count # {}

\* C20: a run that discovers no source file writes both index tables with a
\* header row and an empty body, whatever the tables held before the run,
\* and prints a summary that reports zero files.
C20_EmptyInput ==
  (pc = "done" /\ sources = <<>>) =>
    /\ diskHash = WrittenTable(EmptyDict)
    /\ diskTok = WrittenTable(EmptyDict)
    /\ summary.printed /\ summary.files = 0

\* C21: no task of a stage starts before every task of the preceding stage
\* has finished: when the conversion tasks are submitted every discovered
\* file's hash task has returned or raised, when the count tasks are
\* submitted every selected file's conversion has returned or raised, and
\* the prune starts when every count has; the tasks that run are those of
\* the current stage only.
C21_StageBarrier ==
  [][/\ (pc = "hash" /\ pc' # "hash") =>
          /\ \A f \in Range(sources) : f \in DOMAIN hashes \/ f \in failed.hash
          /\ \A f \in DOMAIN tasks : tasks[f] # "running"
     /\ (pc = "convert" /\ pc' # "convert") =>
          /\ \A f \in Range(to_convert) :
               f \in Range(converted_rels) \/ f \in failed.convert
          /\ \A f \in DOMAIN tasks : tasks[f] # "running"
     /\ (pc = "count" /\ pc' # "count") =>
          /\ \A f \in needs_count :
               \/ f \in failed.count
               \/ converted_path(f, docx_converter) \in DOMAIN token_index
          /\ \A f \in DOMAIN tasks : tasks[f] # "running"
     /\ pc' = "hash" => DOMAIN tasks' = Range(sources')
     /\ pc' = "convert" => DOMAIN tasks' = Range(to_convert')
     /\ pc' = "count" => DOMAIN tasks' = needs_count'
     /\ pc' \notin {"hash", "convert", "count"} =>
          \A f \in DOMAIN tasks' : tasks'[f] # "running"]_vars

\* The count tasks of two files are running after a conversion stage in
\* which one conversion failed.
C21_Witness ==
  /\ pc = "count"
  /\ Len(to_convert) = 2
  /\ failed.convert # {}
  /\ Cardinality(needs_count) = 2
  /\ \A f \in DOMAIN tasks : tasks[f] = "running"

ExpectedSelection ==
  {f \in Range(Discovered(before.fs)) :
     \/ f \notin DOMAIN before.hash_index
     \/ (f \notin failed.hash /\ hash_file(before.fs[f]) # before.hash_index[f])
     \/ converted_path(f, docx_converter) \notin DOMAIN before.fs}
ExpectedConverted == ExpectedSelection \ failed.convert
ExpectedHashIndex ==
  [f \in Range(Discovered(before.fs)) \ failed.hash |-> hash_file(before.fs[f])]
ExpectedCounted ==
  {f \in DOMAIN ExpectedHashIndex :
     /\ converted_path(f, docx_converter) \in DOMAIN fs
     /\ \/ f \in ExpectedConverted
        \/ converted_path(f, docx_converter) \notin DOMAIN before.token_index
     /\ f \notin failed.count}
ExpectedTokenIndex ==
  LET outs == {converted_path(f, docx_converter) : f \in DOMAIN ExpectedHashIndex}
      src(k) == CHOOSE f \in DOMAIN ExpectedHashIndex :
                  converted_path(f, docx_converter) = k
  IN [k \in {o \in outs : src(o) \in ExpectedCounted \/ o \in DOMAIN before.token_index}
        |-> IF src(k) \in ExpectedCounted
            THEN count_tokens(fs[k])
            ELSE before.token_index[k]]

\* The table is complete and its rows are in strictly increasing key order.
SortedTable(table) ==
  /\ table.exists /\ table.header
  /\ \A i, j \in 1..Len(table.rows) :
       i < j => PathLess(table.rows[i][1], table.rows[j][1])

\* C23: the set of converted files and the contents of both persisted tables
\* of a complete run are determined by the file-system contents, the loaded
\* indices, the converter choice and the per-file outcomes: they are the same
\* for every completion order of the tasks of the three stages.
C23_OrderInsensitive ==
  (pc = "done" /\ ~early) =>
    /\ Range(converted_rels) = ExpectedConverted
    /\ \A f \in ExpectedConverted :
         fs[converted_path(f, docx_converter)] = ConverterOutput(before.fs[f])
    /\ SortedTable(diskHash)
    /\ load_hash_index(diskHash) = ExpectedHashIndex
    /\ Len(diskHash.rows) = Cardinality(DOMAIN ExpectedHashIndex)
    /\ SortedTable(diskTok)
    /\ load_token_index(diskTok) = ExpectedTokenIndex
    /\ Len(diskTok.rows) = Cardinality(DOMAIN ExpectedTokenIndex)

\* A complete run over two files whose conversions completed in the order
\* opposite to the sorted order.
C23_Witness ==
  /\ pc = "done"
  /\ sources = <<FileA, FileB>>
  /\ converted_rels = <<FileB, FileA>>
  /\ Len(diskHash.rows) = 2 /\ Len(diskTok.rows) = 2

\* C24: when the conversion of a file fails in a run, the file at its
\* artifact path is what it was before the run (absent if it was absent,
\* the old content if it existed): no part-written artifact is left.
C24_FailedConversionLeavesArtifact ==
  \A f \in failed.convert :
    LET out == converted_path(f, docx_converter) IN
    /\ out \in DOMAIN fs <=> out \in DOMAIN before.fs
    /\ out \in DOMAIN fs => fs[out] = before.fs[out]

\* C25: in the run summary the 'converted' count is the number of files
\* converted this run and the 'unchanged' count is the number of discovered
\* files that were not selected for conversion, so that a file whose
\* conversion failed is in neither count.
C25_SummaryCounts ==
  (pc = "done" /\ summary.printed) =>
    /\ summary.files = Len(sources)
    /\ summary.converted = Cardinality(Range(converted_rels))
    /\ summary.unchanged = Cardinality(Range(sources) \ Range(to_convert))

\* The last piece of the artifact name each converter choice gives a DOCX
\* source.
DocxArtifactSuffix(choice) ==
  IF choice = DOCX_CONVERTER_MARKITDOWN THEN "md" ELSE "json"

\* C26: after a complete run under converter choice c that discovered at
\* least one file, every token-index key that is an artifact path of a DOCX
\* source ends in the suffix of c (md for markitdown, json for
\* superdoc-redlines); an entry of the same source under the other choice
\* is gone.
C26_DocxKeyFollowsChoice ==
  (pc = "done" /\ ~early) =>
    \A k \in TableKeys(diskTok) :
      \A s \in SourceUniverse :
        ( /\ Lower(PathSuffix(s)) = "docx"
          /\ k.dir = s.dir
          /\ SubSeq(k.name, 1, Len(s.name)) = s.name )
        => /\ Len(k.name) = Len(s.name) + 1
           /\ k.name[Len(k.name)] = DocxArtifactSuffix(docx_converter)

\* A complete run under superdoc-redlines that loaded a token entry of the
\* DOCX source written under markitdown and persisted the json one.
C26_Witness ==
  /\ pc = "done"
  /\ docx_converter = DOCX_CONVERTER_SUPERDOC
  /\ MkPath(<<>>, <<"b", "docx", "md">>) \in DOMAIN before.token_index
  /\ MkPath(<<>>, <<"b", "docx", "json">>) \in TableKeys(diskTok)

\* The paths of DiscoveryUniverse and NotesPdf whose suffix, lower-cased, is
\* supported and that lie below no directory whose name starts with ".".
SupportedVisible ==
  {MkPath(<<>>, <<"", "a", "pdf">>), MkPath(<<>>, <<"a", "pdf">>),
   MkPath(<<>>, <<"b", "docx">>), MkPath(<<>>, <<"c", "PDF">>),
   MkPath(<<>>, <<"c", "eml">>), MkPath(<<>>, <<"notes", "pdf">>),
   MkPath(<<"sub">>, <<"b", "docx">>)}

\* C27: discovery returns, strictly sorted (hence without duplicates),
\* exactly the regular files under the root whose lower-cased suffix is
\* supported and none of whose parent directories starts with "."; no
\* converted artifact of a file under the root and neither index table is
\* among them.
C27_Discovery ==
  [][(pc = "discover" /\ pc' # "discover") =>
       LET tree == RglobTree(fs, diskHash, diskTok) IN
       /\ \A i, j \in 1..Len(sources') :
            i < j => PathLess(sources'[i], sources'[j])
       /\ Range(sources') =
            {p \in DOMAIN tree \cap SupportedVisible : tree[p] # DirEntry}
       /\ HASH_INDEX_FILENAME \notin Range(sources')
       /\ TOKEN_INDEX_FILENAME \notin Range(sources')
       /\ \A g \in DOMAIN tree : \A c \in ConverterChoices :
            converted_path(g, c) \notin Range(sources')]_vars

\* Discovery over a root that holds every kind of entry: the six sources
\* come out in str order and the directory, the hidden files, the text
\* file, the artifacts and the tables do not.
C27_Witness ==
  /\ pc = "hash"
  /\ {FileInGit, FileInNestedHidden, TextFile, ArtifactA, ArtifactB, NotesPdf}
       \subseteq DOMAIN fs
  /\ fs[NotesPdf] = DirEntry
  /\ diskHash.exists /\ diskTok.exists
  /\ sources = << MkPath(<<>>, <<"", "a", "pdf">>),
                  MkPath(<<>>, <<"a", "pdf">>),
                  MkPath(<<>>, <<"b", "docx">>),
                  MkPath(<<>>, <<"c", "PDF">>),
                  MkPath(<<>>, <<"c", "eml">>),
                  MkPath(<<"sub">>, <<"b", "docx">>) >>

\* C28: after a complete run that discovered at least one file, the
\* persisted hash index is the map of the digests computed in that run: its
\* keys are the discovered files whose hash task succeeded, each with the
\* digest of the file's bytes, whatever the conversions and counts did.
C28_PersistedHashIndex ==
  (pc = "done" /\ ~early) =>
    /\ diskHash.exists /\ diskHash.header
    /\ Len(diskHash.rows) = Cardinality(TableKeys(diskHash))
    /\ TableKeys(diskHash) = Range(sources) \ failed.hash
    /\ \A i \in 1..Len(diskHash.rows) :
         diskHash.rows[i][2] = hash_file(fs[diskHash.rows[i][1]])
    /\ load_hash_index(diskHash) = hashes

\* A complete run in which one discovered file could not be hashed and the
\* other one was.
C28_Witness ==
  /\ pc = "done" /\ ~early
  /\ failed.hash # {}
  /\ TableKeys(diskHash) # {}
  /\ TableKeys(diskHash) # Range(sources)

\* C29: in main.py, a hashed file that was not converted this run and
\* whose digest differs from the indexed one, or that has no entry, has
\* after step 5 the entry <<new digest, 0>>: the token count is cleared, not
\* carried over from the previous entry.
C29_TokensCleared ==
  [][(pc = "m_convert" /\ pc' = "m_count") =>
       \A rel \in DOMAIN hashes :
         ( /\ rel \notin Range(converted_rels)
           /\ rel \notin DOMAIN file_index \/ file_index[rel][1] # hashes[rel] )
         => /\ rel \in DOMAIN file_index'
            /\ file_index'[rel] = <<hashes[rel], 0>>]_vars

\* The entry main.py persists for such a file: the new digest next to the
\* token count of the artifact converted from the older bytes.
C29_StaleTokensPersisted ==
  /\ pc = "done"
  /\ \E i \in 1..Len(diskIndex.rows) :
       LET rel == diskIndex.rows[i][1]
           entry == diskIndex.rows[i][2] IN
       /\ rel \in failed.convert
       /\ entry[1] = hash_file(fs[rel])
       /\ entry[2] # 0

\* Supported source paths: two stems under each supported suffix, in lower
\* and upper case, in the root and in a subdirectory, a dot-file, and a
\* source whose name continues an artifact's name.
SupportedSources ==
  {MkPath(d, <<x, e>>) :
     d \in {<<>>, <<"sub">>}, x \in {"a", "b"},
     e \in {"pdf", "PDF", "docx", "DOCX", "eml"}}
  \cup {MkPath(<<>>, <<"", "a", "pdf">>), MkPath(<<>>, <<"a", "pdf", "md", "pdf">>)}

\* An artifact path is a supported source or an index table.
ClashesWithInput(out) ==
  \/ Lower(PathSuffix(out)) \in {"pdf", "docx", "eml", "msg", "emlx", "mbox",
                                 "mbx", "mht", "mhtml", "oft"}
  \/ out = MkPath(<<>>, <<"", "hash_index", "csv">>)
  \/ out = MkPath(<<>>, <<"", "token_index", "csv">>)

\* For each converter choice, different supported sources have different
\* artifact paths, and no artifact path is a supported source or a table.
C30_Injective ==
  \A c \in ConverterChoices : \A s, t \in SupportedSources :
    /\ converted_path(s, c) # Unsupported
    /\ s # t => converted_path(s, c) # converted_path(t, c)
    /\ ~ClashesWithInput(converted_path(s, c))

\* In the convert stage the tasks of the pool have pairwise different
\* artifact paths, none of them a discovered source or a table.
C30_DistinctTargets ==
  pc = "convert" =>
    \A f, g \in DOMAIN tasks :
      /\ f # g => converted_path(f, docx_converter) # converted_path(g, docx_converter)
      /\ converted_path(f, docx_converter) \notin Range(sources)
      /\ ~ClashesWithInput(converted_path(f, docx_converter))

\* A step of the convert stage that writes under the root is the task of one
\* file f writing converted_path(f) only: every other path, every source
\* and both tables are as before.
C30_WritesOwnArtifact ==
  (pc = "convert" /\ fs' # fs) =>
    /\ diskHash' = diskHash /\ diskTok' = diskTok
    /\ \A s \in Range(sources) : s \in DOMAIN fs' /\ fs'[s] = fs[s]
    /\ \E f \in DOMAIN tasks :
         /\ tasks[f] = "running" /\ tasks'[f] = "collected"
         /\ \A p \in (DOMAIN fs \cup DOMAIN fs') \ {converted_path(f, docx_converter)} :
              p \in DOMAIN fs /\ p \in DOMAIN fs' /\ fs'[p] = fs[p]

\* C30: for a fixed converter choice converted_path is injective on
\* supported source paths and never returns a supported source or an index
\* table; so in the convert stage no two tasks write the same artifact path
\* and no conversion overwrites a source file or an index table.
C30_ArtifactPathsDisjoint ==
  [](C30_Injective /\ C30_DistinctTargets) /\ [][C30_WritesOwnArtifact]_vars

\* Two conversion tasks have run in one pool: both artifacts are written,
\* under different paths, and both sources hold the bytes the run found.
C30_Witness ==
  /\ pc = "convert"
  /\ Len(converted_rels) = 2
  /\ \A f \in Range(converted_rels) :
       /\ converted_path(f, docx_converter) \in DOMAIN fs
       /\ fs[converted_path(f, docx_converter)] = ConverterOutput(fs[f])
       /\ fs[f] = before.fs[f]
  /\ Cardinality({converted_path(f, docx_converter) : f \in Range(converted_rels)}) = 2

\* C31: when a run has completed with no per-file failure, every entry of
\* the persisted token index is the token count of the artifact that is on
\* disk at its key; an entry left stale by a count that failed in an
\* earlier run does not survive such a run.
C31_TokenCacheFresh ==
  (pc = "done" /\ ~AnyFailure) =>
    \A i \in 1..Len(diskTok.rows) :
      LET k == diskTok.rows[i][1] IN
      /\ k \in DOMAIN fs
      /\ diskTok.rows[i][2] = count_tokens(fs[k])

\* The stale entry the claim names: the run before the last one converted
\* every file it selected and failed only in a count; the last run had no
\* failure at all, and the persisted entry is still not the count of the
\* artifact on disk.
C31_StaleAfterFailedCount ==
  /\ pc = "done" /\ ~AnyFailure
  /\ prev.done
  /\ prev.failed.count # {}
  /\ prev.failed.hash = {} /\ prev.failed.convert = {}
  /\ \E i \in 1..Len(diskTok.rows) :
       LET k == diskTok.rows[i][1] IN
       /\ k \in DOMAIN fs
       /\ fs[k] \in {ConverterOutput(b) : b \in 1..MaxContent}
       /\ diskTok.rows[i][2] # count_tokens(fs[k])

====
